---- MODULE Spec2Model ----
(***************************************************************************)
(* A model of the nipl lexer (src/lexer/lexer.rs), its token model         *)
(* (src/token/token.rs), the character tests (src/utils/mod.rs) and the    *)
(* interactive read loop (src/repl/repl.rs).                               *)
(*                                                                         *)
(* A character is a one-character string, a String / Vec<char> is a        *)
(* sequence of characters.  Rust indexes from 0 and TLA+ from 1, so the    *)
(* source's input[i] is input[i + 1] here; position and read_position     *)
(* keep the source's 0-based values.                                       *)
(***************************************************************************)
EXTENDS Naturals, Sequences, FiniteSets, TLC

VARIABLES
    input, position, read_position, current_char, \* the fields of the Lexer
    status,   \* "ok", or "panicked" once a call has aborted
    tokens,   \* the tokens next_token has returned on this Lexer, in order
    pc,       \* where start() is: "prompt", "while", "returned"; "caller" outside it
    line,     \* start()'s local input: the line read_line returned
    tok,      \* start()'s local tok
    stdout,   \* what start() has printed, in order
    reads     \* lines read so far

replvars == <<pc, line, tok, stdout, reads>>
vars == <<input, position, read_position, current_char, status, tokens,
          pc, line, tok, stdout, reads>>

(***************************************************************************)
(* Characters                                                              *)
(***************************************************************************)
\* Option<char>::None
None == "None"
\* 0_u8 as char
NUL == "NUL"

LowerCase == {"a","b","c","d","e","f","g","h","i","j","k","l","m",
              "n","o","p","q","r","s","t","u","v","w","x","y","z"}
UpperCase == {"A","B","C","D","E","F","G","H","I","J","K","L","M",
              "N","O","P","Q","R","S","T","U","V","W","X","Y","Z"}
Digits == {"0","1","2","3","4","5","6","7","8","9"}

\* 'a' <= ch && ch <= 'z' || 'A' <= ch && ch <= 'Z' || ch == '_'
is_letter_or_underscore(ch) == ch \in LowerCase \/ ch \in UpperCase \/ ch = "_"

\* '0' <= ch && ch <= '9'
is_digit(ch) == ch \in Digits

(***************************************************************************)
(* Token model                                                             *)
(***************************************************************************)
\* a TokenType variant without payload
Unit(tag) == [tag |-> tag, text |-> <<>>]
Illegal == Unit("Illegal")
EOF == Unit("EOF")
Ident(s) == [tag |-> "Ident", text |-> s]
Int(s) == [tag |-> "Int", text |-> s]
Assign == Unit("Assign")
Plus == Unit("Plus")
Bang == Unit("Bang")
Minus == Unit("Minus")
Slash == Unit("Slash")
Asterisk == Unit("Asterisk")
LT == Unit("LT")
GT == Unit("GT")
Eq == Unit("Eq")
NotEq == Unit("NotEq")
LTE == Unit("LTE")
GTE == Unit("GTE")
Comma == Unit("Comma")
Semicolon == Unit("Semicolon")
LParen == Unit("LParen")
RParen == Unit("RParen")
LBrace == Unit("LBrace")
\* a plausible slip: '}' given the kind of '{'
RBrace_as_LBrace == Unit("LBrace")
RBrace == Unit("RBrace")
Let == Unit("Let")
Function == Unit("Function")
If == Unit("If")
Else == Unit("Else")
Return == Unit("Return")
True == Unit("True")
False == Unit("False")

\* char::to_string
char_to_string(ch) == <<ch>>

\* Token::new(kind, stringer): literal is stringer.to_string()
Token_new(kind, literal) == [kind |-> kind, literal |-> literal]

\* Token::set_literal_str
set_literal_str(t, s) == [t EXCEPT !.literal = s]

\* Token::set_kind
set_kind(t, k) == [t EXCEPT !.kind = k]

(***************************************************************************)
(* Lexer: the cursor l is [position, read_position, current_char]; the     *)
(* input never changes and is passed alongside.                            *)
(***************************************************************************)
\* a plausible slip: peeking at position instead of read_position
peek_char_at_position(inp, l) ==
    IF l.position < Len(inp) THEN inp[l.position + 1] ELSE None

peek_char(inp, l) ==
    IF l.read_position < Len(inp) THEN inp[l.read_position + 1] ELSE None

\* a plausible slip: position += 1 instead of position = read_position
read_char_incrementing(inp, l) ==
    [current_char |-> peek_char(inp, l),
     position |-> l.position + 1,
     read_position |-> l.read_position + 1]

read_char(inp, l) ==
    [current_char |-> peek_char(inp, l),
     position |-> l.read_position,
     read_position |-> l.read_position + 1]

\* Lexer::new
Lexer_new(inp) ==
    read_char(inp, [current_char |-> None, position |-> 0, read_position |-> 0])

\* a plausible slip: the tab left out of the match
RECURSIVE eat_whitespace_no_tab(_, _)
eat_whitespace_no_tab(inp, l) ==
    IF l.current_char \in {" ", "\n", "\r"}
    THEN eat_whitespace_no_tab(inp, read_char(inp, l))
    ELSE l

\* a plausible slip: the carriage return left out of the match
RECURSIVE eat_whitespace_no_cr(_, _)
eat_whitespace_no_cr(inp, l) ==
    IF l.current_char \in {" ", "\t", "\n"}
    THEN eat_whitespace_no_cr(inp, read_char(inp, l))
    ELSE l

RECURSIVE eat_whitespace(_, _)
eat_whitespace(inp, l) ==
    IF l.current_char \in {" ", "\t", "\n", "\r"}
    THEN eat_whitespace(inp, read_char(inp, l))
    ELSE l

\* the while loop of read_identifier: unwrap() panics on None
RECURSIVE read_identifier_loop(_, _)
read_identifier_loop(inp, l) ==
    IF l.current_char = None THEN [panicked |-> TRUE, lexer |-> l]
    ELSE IF is_letter_or_underscore(l.current_char)
         THEN read_identifier_loop(inp, read_char(inp, l))
         ELSE [panicked |-> FALSE, lexer |-> l]

\* a plausible slip: the slice taken from one past the first letter
read_identifier_off_by_one(inp, l) ==
    LET r == read_identifier_loop(inp, l)
    IN  [panicked |-> r.panicked \/ l.position + 1 > r.lexer.position
                                 \/ r.lexer.position > Len(inp),
         lexer |-> r.lexer,
         result |-> SubSeq(inp, l.position + 2, r.lexer.position)]

read_identifier(inp, l) ==
    LET r == read_identifier_loop(inp, l)
    IN  [panicked |-> r.panicked \/ l.position > r.lexer.position
                                 \/ r.lexer.position > Len(inp),
         lexer |-> r.lexer,
         result |-> SubSeq(inp, l.position + 1, r.lexer.position)]

\* the while loop of read_digit: unwrap() panics on None
RECURSIVE read_digit_loop(_, _)
read_digit_loop(inp, l) ==
    IF l.current_char = None THEN [panicked |-> TRUE, lexer |-> l]
    ELSE IF is_digit(l.current_char)
         THEN read_digit_loop(inp, read_char(inp, l))
         ELSE [panicked |-> FALSE, lexer |-> l]

\* a plausible slip: the slice stops one short of the last digit
read_digit_dropping_last(inp, l) ==
    LET r == read_digit_loop(inp, l)
    IN  [panicked |-> r.panicked \/ l.position + 1 > r.lexer.position
                                 \/ r.lexer.position > Len(inp),
         lexer |-> r.lexer,
         result |-> SubSeq(inp, l.position + 1, r.lexer.position - 1)]

read_digit(inp, l) ==
    LET r == read_digit_loop(inp, l)
    IN  [panicked |-> r.panicked \/ l.position > r.lexer.position
                                 \/ r.lexer.position > Len(inp),
         lexer |-> r.lexer,
         result |-> SubSeq(inp, l.position + 1, r.lexer.position)]

\* a plausible slip: the "let" arm left out of the keyword match
lookup_identifier_no_let(s) ==
    CASE s = <<"f","n">> -> Function
      [] s = <<"i","f">> -> If
      [] s = <<"e","l","s","e">> -> Else
      [] s = <<"r","e","t","u","r","n">> -> Return
      [] s = <<"t","r","u","e">> -> True
      [] s = <<"f","a","l","s","e">> -> False
      [] OTHER -> Ident(s)

lookup_identifier(s) ==
    CASE s = <<"l","e","t">> -> Let
      [] s = <<"f","n">> -> Function
      [] s = <<"i","f">> -> If
      [] s = <<"e","l","s","e">> -> Else
      [] s = <<"r","e","t","u","r","n">> -> Return
      [] s = <<"t","r","u","e">> -> True
      [] s = <<"f","a","l","s","e">> -> False
      [] OTHER -> Ident(s)

\* Option::unwrap_or
unwrap_or(o, d) == IF o = None THEN d ELSE o

\* a plausible slip: the '=' is peeked but not read
check_two_char_token_eq_no_read(inp, l, single_kind, double_kind) ==
    IF unwrap_or(peek_char(inp, l), NUL) = "="
    THEN [panicked |-> l.current_char = None,
          lexer |-> l,
          tok |-> Token_new(double_kind, <<l.current_char, peek_char(inp, l)>>)]
    ELSE [panicked |-> l.current_char = None,
          lexer |-> l,
          tok |-> Token_new(single_kind, char_to_string(l.current_char))]

\* expect() panics when current_char is None
check_two_char_token_eq(inp, l, single_kind, double_kind) ==
    IF unwrap_or(peek_char(inp, l), NUL) = "="
    THEN LET curr_char == l.current_char
             l2 == read_char(inp, l)
         IN  [panicked |-> curr_char = None \/ l2.current_char = None,
              lexer |-> l2,
              tok |-> Token_new(double_kind, <<curr_char, l2.current_char>>)]
    ELSE [panicked |-> l.current_char = None,
          lexer |-> l,
          tok |-> Token_new(single_kind, char_to_string(l.current_char))]

\* a plausible slip: read_char called twice after the match
Advance_skipping(inp, r) ==
    [panicked |-> r.panicked,
     lexer |-> IF r.panicked THEN r.lexer
               ELSE read_char(inp, read_char(inp, r.lexer)),
     tok |-> r.tok]

\* the fixed branches of next_token: build the token, then read_char
Advance(inp, r) ==
    [panicked |-> r.panicked,
     lexer |-> IF r.panicked THEN r.lexer ELSE read_char(inp, r.lexer),
     tok |-> r.tok]

\* a plausible slip: the token built after the cursor has moved on
Single_after_advance(l, kind, ch) ==
    [panicked |-> FALSE,
     lexer |-> [l EXCEPT !.position = l.read_position,
                         !.read_position = l.read_position + 1],
     tok |-> Token_new(kind, char_to_string(ch))]

\* '+' => Token::new(TokenType::Plus, ch) and the like
Single(l, kind, ch) ==
    [panicked |-> FALSE, lexer |-> l, tok |-> Token_new(kind, char_to_string(ch))]

\* the default branch of next_token's match
next_token_default(inp, l, ch) ==
    LET t0 == Token_new(Illegal, char_to_string(ch))
    IN  IF is_letter_or_underscore(ch)
        THEN LET r == read_identifier(inp, l)
                 t1 == set_literal_str(t0, r.result)
             IN  [panicked |-> r.panicked, lexer |-> r.lexer,
                  tok |-> set_kind(t1, lookup_identifier(t1.literal))]
        ELSE IF is_digit(ch)
        THEN LET r == read_digit(inp, l)
                 t1 == set_literal_str(t0, r.result)
             IN  [panicked |-> r.panicked, lexer |-> r.lexer,
                  tok |-> set_kind(t1, Int(t1.literal))]
        ELSE [panicked |-> FALSE, lexer |-> l, tok |-> t0]

\* None => return Token::new(TokenType::EOF, 0_u8 as char)
\* a plausible slip: advancing once more before returning at the end
next_token_eof_advancing(l) ==
    [panicked |-> FALSE,
     lexer |-> [l EXCEPT !.position = l.read_position,
                         !.read_position = l.read_position + 1],
     tok |-> Token_new(EOF, char_to_string(NUL))]

\* a plausible slip: the cursor rewound to the start at the end
next_token_eof_rewinding(l) ==
    [panicked |-> FALSE,
     lexer |-> [l EXCEPT !.position = 0, !.read_position = 1],
     tok |-> Token_new(EOF, char_to_string(NUL))]

next_token_eof(l) ==
    [panicked |-> FALSE, lexer |-> l, tok |-> Token_new(EOF, char_to_string(NUL))]

\* Lexer::next_token: the cursor after the call, whether the call panicked,
\* and the token it returned when it did not
next_token(inp, l0) ==
    LET l == eat_whitespace(inp, l0)
        ch == l.current_char
    IN  IF ch = None
        THEN next_token_eof(l)
        ELSE CASE ch = "=" -> Advance(inp, check_two_char_token_eq(inp, l, Assign, Eq))
               [] ch = "!" -> Advance(inp, check_two_char_token_eq(inp, l, Bang, NotEq))
               [] ch = "<" -> Advance(inp, check_two_char_token_eq(inp, l, LT, LTE))
               [] ch = ">" -> Advance(inp, check_two_char_token_eq(inp, l, GT, GTE))
               [] ch = "+" -> Advance(inp, Single(l, Plus, ch))
               [] ch = "-" -> Advance(inp, Single(l, Minus, ch))
               [] ch = "/" -> Advance(inp, Single(l, Slash, ch))
               [] ch = "*" -> Advance(inp, Single(l, Asterisk, ch))
               [] ch = ";" -> Advance(inp, Single(l, Semicolon, ch))
               [] ch = "(" -> Advance(inp, Single(l, LParen, ch))
               [] ch = ")" -> Advance(inp, Single(l, RParen, ch))
               [] ch = "," -> Advance(inp, Single(l, Comma, ch))
               [] ch = "{" -> Advance(inp, Single(l, LBrace, ch))
               [] ch = "}" -> Advance(inp, Single(l, RBrace, ch))
               [] OTHER -> next_token_default(inp, l, ch)

(***************************************************************************)
(* Bounds and the inputs they span                                         *)
(***************************************************************************)
\* longest input enumerated exhaustively over CoreChars
MaxLen == 3
\* longest context put before and after each word of Words
MaxCtx == 1
\* next_token calls made after the call that would end a full scan
ExtraCalls == 2
\* lines the read loop reads
MaxReads == 2
\* longest line body enumerated exhaustively over ReplChars
MaxLine == 2
\* tokens the read loop prints
MaxPrints == 4

CoreChars == {"=", "!", "+", "a", "_", "0", "7", " ", "\n", "@"}
CtxChars == {" ", "=", "x", "1", "@"}

RECURSIVE SeqsUpTo(_, _)
SeqsUpTo(S, n) ==
    IF n = 0 THEN {<<>>}
    ELSE LET P == SeqsUpTo(S, n - 1)
         IN  P \cup {Append(p, c) : p \in {q \in P : Len(q) = n - 1}, c \in S}

AllChars == LowerCase \cup UpperCase \cup Digits \cup
            {"_", "=", "!", "<", ">", "+", "-", "/", "*", ";", "(", ")", ",",
             "{", "}", " ", "\t", "\n", "\r",
             "@", "[", "`", ":", "\"", ".", "#", "&", "|", "%", "~", "^", "?", "$", "\\", "'", "]"}

Words == {<<c>> : c \in AllChars} \cup
         {<<"=","=">>, <<"!","=">>, <<"<","=">>, <<">","=">>,
          <<"l","e","t">>, <<"f","n">>, <<"i","f">>, <<"e","l","s","e">>,
          <<"r","e","t","u","r","n">>, <<"t","r","u","e">>,
          <<"f","a","l","s","e">>,
          <<"l","e","t","s">>, <<"l","e">>, <<"L","e","t">>, <<"I","F">>,
          <<"r","e","t","u","r","n","s">>, <<"f","i","v","e">>,
          <<"_","f","i","v","e">>, <<"t","r","u","e","_">>,
          <<"0","0","7">>, <<"1","0">>, <<"9","0","0","1">>}

\* the inputs of the end-to-end scenarios
LetFive == <<"l","e","t"," ","f","i","v","e"," ","=", " ","5",";">>
TenNotNine == <<"1","0"," ","!","="," ","9",";">>
BangMinus == <<"!","-","/","*","5",";">>
Scenarios == {LetFive, TenNotNine, BangMinus}

Inputs == SeqsUpTo(CoreChars, MaxLen) \cup Scenarios \cup
          {p \o w \o s : p \in SeqsUpTo(CtxChars, MaxCtx), w \in Words,
                         s \in SeqsUpTo(CtxChars, MaxCtx)}

(***************************************************************************)
(* The scanner driven by a caller                                          *)
(***************************************************************************)
lexer == [current_char |-> current_char, position |-> position,
          read_position |-> read_position]

\* one call of next_token on the scanner l over inp, which has returned toks
CallNextToken(inp, l, toks) ==
    LET r == next_token(inp, l)
    IN  /\ position' = r.lexer.position
        /\ read_position' = r.lexer.read_position
        /\ current_char' = r.lexer.current_char
        /\ input' = inp
        /\ status' = IF r.panicked THEN "panicked" ELSE status
        /\ tokens' = IF r.panicked THEN toks ELSE Append(toks, r.tok)

Init ==
    /\ input \in Inputs
    /\ position = Lexer_new(input).position
    /\ read_position = Lexer_new(input).read_position
    /\ current_char = Lexer_new(input).current_char
    /\ status = "ok"
    /\ tokens = <<>>
    /\ pc = "caller"
    /\ line = <<>>
    /\ tok = None
    /\ stdout = <<>>
    /\ reads = 0

NextToken ==
    /\ status = "ok"
    /\ Len(tokens) < Len(input) + 1 + ExtraCalls
    /\ CallNextToken(input, lexer, tokens)
    /\ UNCHANGED replvars

Next == NextToken

Spec == Init /\ [][Next]_vars

\* the caller keeps calling next_token while it can
FairSpec == Spec /\ WF_vars(NextToken)

(***************************************************************************)
(* The interactive read loop, start()                                      *)
(***************************************************************************)
PROMPT == ">> "

\* print!("{PROMPT}") and println!("{tok:?}") as entries of stdout
print(text) == [macro |-> "print", arg |-> text]
println(t) == [macro |-> "println", arg |-> t]

ReplChars == {"a", "5", "=", " ", "@"}
Quit == <<"q","u","i","t">>
LineBodies == SeqsUpTo(ReplChars, MaxLine) \cup
              {Quit, <<"l","e","t"," ","a","=","5",";">>}
\* read_line returns a line with its terminator, or at the end of stdin
\* what is left without one (nothing at all when stdin is exhausted)
Lines == {b \o <<"\n">> : b \in LineBodies} \cup LineBodies

ReplInit ==
    /\ input = <<>>
    /\ position = 0
    /\ read_position = 0
    /\ current_char = None
    /\ status = "ok"
    /\ tokens = <<>>
    /\ pc = "prompt"
    /\ line = <<>>
    /\ tok = None
    /\ stdout = <<>>
    /\ reads = 0

\* after a next_token call in start(): the while test on the token it returned
WhileTest ==
    /\ tok' = IF status' = "panicked" THEN tok ELSE tokens'[Len(tokens')]
    /\ pc' = IF status' = "panicked" THEN pc
              ELSE IF tokens'[Len(tokens')].kind # EOF THEN "while" ELSE "prompt"

\* print the prompt, read a line, return on the bare terminator, otherwise
\* start a lexer and read the first token
ReadLine ==
    /\ pc = "prompt"
    /\ status = "ok"
    /\ reads < MaxReads
    /\ \E ln \in Lines :
          /\ line' = ln
          /\ reads' = reads + 1
          /\ stdout' = Append(stdout, print(PROMPT))
          /\ IF ln = <<"\n">>
             THEN /\ pc' = "returned"
                  /\ UNCHANGED <<input, position, read_position, current_char,
                                 status, tokens, tok>>
             ELSE /\ CallNextToken(ln, Lexer_new(ln), <<>>)
                  /\ WhileTest

\* read_line fails: expect() panics
ReadLineFails ==
    /\ pc = "prompt"
    /\ status = "ok"
    /\ reads < MaxReads
    /\ stdout' = Append(stdout, print(PROMPT))
    /\ status' = "panicked"
    /\ UNCHANGED <<input, position, read_position, current_char, tokens,
                   pc, line, tok, reads>>

\* the body of the while loop: print the token, read the next one
PrintToken ==
    /\ pc = "while"
    /\ status = "ok"
    /\ Len(SelectSeq(stdout, LAMBDA e : e.macro = "println")) < MaxPrints
    /\ stdout' = Append(stdout, println(tok))
    /\ CallNextToken(input, lexer, tokens)
    /\ WhileTest
    /\ UNCHANGED <<line, reads>>

ReplNext == ReadLine \/ ReadLineFails \/ PrintToken

ReplSpec == ReplInit /\ [][ReplNext]_vars

(***************************************************************************)
(* Properties                                                              *)
(***************************************************************************)
Whitespace == {" ", "\t", "\n", "\r"}
Letters == LowerCase \cup UpperCase \cup {"_"}
TwoCharStarts == {"=", "!", "<", ">"}
SingleChars == {"+", "-", "/", "*", ";", "(", ")", "{", "}", ","}

\* 0-based index of the first non-whitespace character at or after p
RECURSIVE FirstNonWs(_, _)
FirstNonWs(inp, p) ==
    IF p < Len(inp) /\ inp[p + 1] \in Whitespace THEN FirstNonWs(inp, p + 1) ELSE p

\* 0-based index one past the maximal run of characters of S that starts at p
RECURSIVE RunEnd(_, _, _)
RunEnd(inp, p, S) ==
    IF p < Len(inp) /\ inp[p + 1] \in S THEN RunEnd(inp, p + 1, S) ELSE p

\* where the token of the next call begins
TokenStart == FirstNonWs(input, position)
\* the current character after whitespace skipping
StartChar == IF TokenStart < Len(input) THEN input[TokenStart + 1] ELSE None

LastToken == tokens[Len(tokens)]
EOFReturned == \E i \in 1..Len(tokens) : tokens[i].kind.tag = "EOF"

\* the call made in this step returned the token of kind [tag, text] and literal
Returns(tag, text, literal) ==
    /\ status' = "ok"
    /\ tokens' = Append(tokens, [kind |-> [tag |-> tag, text |-> text],
                                 literal |-> literal])

\* C1: every scan ends with EndOfInput after finitely many calls, bounded by
\* the length of the input: once the caller can call no more, or has made
\* more calls than the input has characters, EndOfInput has been returned.
C1_ScanEndsWithEOF ==
    (status = "panicked" \/ Len(tokens) > Len(input)) => EOFReturned

\* C2: no call of next_token aborts, whatever the input and however many
\* calls are made.
C2_NoFault == status # "panicked"

C3_IllegalStep ==
    (StartChar # None /\ StartChar \notin
        (TwoCharStarts \cup SingleChars \cup Letters \cup Digits))
    => /\ Returns("Illegal", <<>>, <<StartChar>>)
       /\ position' = TokenStart + 1
       /\ current_char' = IF TokenStart + 1 < Len(input)
                          THEN input[TokenStart + 2] ELSE None
\* C3: a character that starts no lexeme is returned as an Illegal token
\* whose literal is that character, and the scan goes on after it.
C3_IllegalNotHalting == [][C3_IllegalStep]_vars

C4_ExhaustedStep ==
    (Len(tokens) > 0 /\ LastToken.kind.tag = "EOF")
    => /\ Returns("EOF", <<>>, <<"NUL">>)
       /\ UNCHANGED <<input, position, read_position, current_char>>
\* C4: once EndOfInput has been returned, every later call returns
\* EndOfInput with the NUL literal and leaves the cursor where it was.
C4_IdempotentExhaustion == [][C4_ExhaustedStep]_vars

C4_Witness ==
    /\ Len(input) > 0
    /\ Len(tokens) >= 3
    /\ tokens[Len(tokens) - 1].kind.tag = "EOF"
    /\ LastToken.kind.tag = "EOF"
    /\ tokens[1].kind.tag # "EOF"

SingleTag == [c \in TwoCharStarts |->
                CASE c = "=" -> "Assign" [] c = "!" -> "Bang"
                  [] c = "<" -> "LT" [] c = ">" -> "GT"]
DoubleTag == [c \in TwoCharStarts |->
                CASE c = "=" -> "Eq" [] c = "!" -> "NotEq"
                  [] c = "<" -> "LTE" [] c = ">" -> "GTE"]

C5_TwoCharStep ==
    StartChar \in TwoCharStarts
    => IF TokenStart + 1 < Len(input) /\ input[TokenStart + 2] = "="
       THEN /\ Returns(DoubleTag[StartChar], <<>>, <<StartChar, "=">>)
            /\ position' = TokenStart + 2
       ELSE /\ Returns(SingleTag[StartChar], <<>>, <<StartChar>>)
            /\ position' = TokenStart + 1
\* C5: = ! < > followed by '=' give Eq, NotEq, LTE, GTE with the two
\* characters as literal and both consumed; followed by anything else, or by
\* nothing, Assign, Bang, LT, GT with the one character, one consumed.
C5_TwoCharOperators == [][C5_TwoCharStep]_vars

C5_Witness ==
    /\ Len(tokens) >= 2
    /\ tokens[1] = [kind |-> [tag |-> "LTE", text |-> <<>>], literal |-> <<"<", "=">>]
    /\ tokens[2] = [kind |-> [tag |-> "Assign", text |-> <<>>], literal |-> <<"=">>]
    /\ position = Len(input)

KeywordTag(run) ==
    CASE run = <<"l","e","t">> -> "Let"
      [] run = <<"f","n">> -> "Function"
      [] run = <<"i","f">> -> "If"
      [] run = <<"e","l","s","e">> -> "Else"
      [] run = <<"r","e","t","u","r","n">> -> "Return"
      [] run = <<"t","r","u","e">> -> "True"
      [] run = <<"f","a","l","s","e">> -> "False"
      [] OTHER -> "Ident"

C6_IdentifierStep ==
    StartChar \in Letters
    => LET run == SubSeq(input, TokenStart + 1, RunEnd(input, TokenStart, Letters))
       IN  /\ Returns(KeywordTag(run),
                      IF KeywordTag(run) = "Ident" THEN run ELSE <<>>, run)
           /\ position' = TokenStart + Len(run)
\* C6: a maximal run of letters and underscores, wherever it is in the input
\* and also when it ends the input, is returned as one token: the keyword
\* when the run is a keyword, otherwise Identifier carrying the run.
C6_IdentifierRuns == [][C6_IdentifierStep]_vars

C7_DigitStep ==
    StartChar \in Digits
    => LET run == SubSeq(input, TokenStart + 1, RunEnd(input, TokenStart, Digits))
       IN  /\ Returns("Int", run, run)
           /\ position' = TokenStart + Len(run)
\* C7: a maximal run of digits, wherever it is in the input and also when it
\* ends the input, is returned as one IntegerLiteral carrying the run.
C7_DigitRuns == [][C7_DigitStep]_vars

FixedTag == [c \in SingleChars |->
               CASE c = "+" -> "Plus" [] c = "-" -> "Minus" [] c = "/" -> "Slash"
                 [] c = "*" -> "Asterisk" [] c = ";" -> "Semicolon"
                 [] c = "(" -> "LParen" [] c = ")" -> "RParen"
                 [] c = "{" -> "LBrace" [] c = "}" -> "RBrace"
                 [] c = "," -> "Comma"]

C8_SingleCharStep ==
    StartChar \in SingleChars
    => Returns(FixedTag[StartChar], <<>>, <<StartChar>>)
\* C8: each of + - / * ; ( ) { } , is returned as its own kind with the one
\* character as literal, whatever follows it.
C8_SingleCharTokens == [][C8_SingleCharStep]_vars

C8_Witness ==
    /\ Len(tokens) >= 2
    /\ tokens[1] = [kind |-> [tag |-> "RBrace", text |-> <<>>], literal |-> <<"}">>]
    /\ tokens[2].kind.tag = "Assign"

WhitespaceOnly(inp) == \A i \in 1..Len(inp) : inp[i] \in Whitespace

\* C9: on an input of whitespace only, the empty input included, the first
\* token returned is EndOfInput.
C9_WhitespaceOnlyGivesEOF ==
    (WhitespaceOnly(input) /\ Len(tokens) >= 1) => tokens[1].kind.tag = "EOF"

C9_Witness ==
    /\ Len(input) >= 2
    /\ WhitespaceOnly(input)
    /\ \E i \in 1..Len(input) : input[i] = "\r"
    /\ Len(tokens) >= 1
    /\ tokens[1].kind.tag = "EOF"

StopLines == {<<"\n">>, Quit \o <<"\n">>}

C10_ReadStep ==
    /\ (reads' = reads + 1 /\ line' \in StopLines)
       => /\ pc' = "returned"
          /\ stdout' = Append(stdout, print(PROMPT))
          /\ UNCHANGED <<input, position, read_position, current_char, tokens>>
    /\ (reads' = reads + 1 /\ line' \notin StopLines /\ status' = "ok")
       => /\ input' = line'
          /\ Len(tokens') = 1
          /\ pc' = IF tokens'[1].kind.tag = "EOF" THEN "prompt" ELSE "while"
    /\ (pc = "while" /\ stdout' # stdout /\ status' = "ok")
       => /\ stdout' = Append(stdout, println(LastToken))
          /\ Len(tokens') = Len(tokens) + 1
          /\ pc' = IF tokens'[Len(tokens')].kind.tag = "EOF"
                   THEN "prompt" ELSE "while"
\* C10: the read loop returns, with no scanner made and nothing printed after
\* the prompt, on the bare terminator and on quit; on any other line it
\* scans the line, prints every token before EndOfInput, and prompts again.
\* Stated for the reads and prints whose next_token call returns.
C10_ReadLoop == [][C10_ReadStep]_vars

ExpectedLetFive ==
    <<[tag |-> "Let", text |-> <<>>],
      [tag |-> "Ident", text |-> <<"f","i","v","e">>],
      [tag |-> "Assign", text |-> <<>>],
      [tag |-> "Int", text |-> <<"5">>],
      [tag |-> "Semicolon", text |-> <<>>],
      [tag |-> "EOF", text |-> <<>>]>>

\* C11: scanning "let five = 5;" yields Let, Identifier("five"), Assign,
\* IntegerLiteral("5"), Semicolon, EndOfInput, in that order, without fault.
C11_LetFiveScenario ==
    input = LetFive
    => /\ status = "ok"
       /\ \A i \in 1..Len(tokens) :
            i <= Len(ExpectedLetFive) => tokens[i].kind = ExpectedLetFive[i]

C11_Witness ==
    /\ input = LetFive
    /\ Len(tokens) = Len(ExpectedLetFive)
    /\ LastToken.kind.tag = "EOF"

\* the call made in this step returned a token
Returned == status' = "ok" /\ Len(tokens') = Len(tokens) + 1
NewToken == tokens'[Len(tokens')]
FixedTags == {"Assign", "Bang", "LT", "GT", "Eq", "NotEq", "LTE", "GTE",
              "Plus", "Minus", "Slash", "Asterisk", "Semicolon", "LParen",
              "RParen", "LBrace", "RBrace", "Comma"}
WordTags == {"Ident", "Let", "Function", "If", "Else", "Return", "True", "False"}

C12_CursorStep ==
    (Returned /\ NewToken.kind.tag \in FixedTags \cup WordTags \cup {"Int"})
    => /\ position' = TokenStart + Len(NewToken.literal)
       /\ Len(NewToken.literal) >= 1
       /\ read_position' = position' + 1
\* C12: after a call that returns a fixed one- or two-character token, an
\* identifier, a keyword or an integer, the cursor is exactly one past the
\* last character of the lexeme: position = lexeme start + literal length.
C12_CursorPastLexeme == [][C12_CursorStep]_vars

C12_Witness ==
    /\ Len(tokens) >= 3
    /\ tokens[1].kind.tag \in WordTags \cup {"Int"}
    /\ tokens[2].kind.tag \in {"Eq", "NotEq", "LTE", "GTE"}
    /\ tokens[3].kind.tag = "Int"
    /\ position < Len(input)

C13_LiteralStep ==
    (Returned /\ NewToken.kind.tag # "EOF")
    => /\ Len(NewToken.literal) >= 1
       /\ TokenStart + Len(NewToken.literal) <= Len(input)
       /\ NewToken.literal =
            SubSeq(input, TokenStart + 1, TokenStart + Len(NewToken.literal))
       /\ NewToken.kind.tag \in {"Ident", "Int"}
            => NewToken.kind.text # <<>> /\ NewToken.kind.text = NewToken.literal
\* C13: the literal of every returned token other than EndOfInput is the
\* substring of the input that starts where the token began; Identifier and
\* IntegerLiteral carry a non-empty text equal to that literal.
C13_LiteralIsLexeme == [][C13_LiteralStep]_vars

C13_Witness ==
    /\ Len(tokens) >= 2
    /\ tokens[1].kind.tag = "Ident"
    /\ Len(tokens[1].literal) >= 2
    /\ tokens[2].kind.tag \in {"Int", "Illegal", "NotEq"}

\* C14: current_char is None exactly when position is at or past the end of
\* the input, and is the character at position otherwise.
C14_CurrentCharAtPosition ==
    IF position >= Len(input) THEN current_char = None
    ELSE current_char # None /\ current_char = input[position + 1]

C14_Witness ==
    /\ Len(tokens) >= 2
    /\ position > 0
    /\ position < Len(input)
    /\ current_char = input[position + 1]

\* C15: read_position is position + 1 in every state of a constructed scanner.
C15_ReadPositionAhead == read_position = position + 1

C15_Witness ==
    /\ Len(tokens) >= 2
    /\ position >= 2
    /\ read_position = position + 1

C16_MonotoneStep ==
    /\ position' >= position
    /\ read_position' >= read_position
    /\ input' = input
    /\ read_char(input, lexer).position >= position
    /\ read_char(input, lexer).read_position >= read_position
\* C16: position and read_position never decrease over next_token calls, nor
\* over a read_char made from any state the scanner is in, and the input is
\* never modified.
C16_CursorNeverBackward == [][C16_MonotoneStep]_vars

C16_Witness ==
    /\ Len(tokens) >= 3
    /\ position = Len(input)
    /\ Len(input) >= 2
    /\ tokens[Len(tokens) - 1].kind.tag = "EOF"

\* C17: no returned token has a space, tab, newline or carriage return in its
\* literal (or in the text of its kind); whitespace ends every run.
C17_NoWhitespaceInLiterals ==
    \A i \in 1..Len(tokens) :
       /\ \A j \in 1..Len(tokens[i].literal) : tokens[i].literal[j] \notin Whitespace
       /\ \A j \in 1..Len(tokens[i].kind.text) : tokens[i].kind.text[j] \notin Whitespace

C17_Witness ==
    /\ Len(tokens) >= 2
    /\ Len(input) = 3
    /\ input[2] = "\t"
    /\ tokens[1].kind.tag \in {"Ident", "Int"}
    /\ tokens[2].kind.tag # "EOF"

C18_DigitAfterLettersStep ==
    /\ (StartChar \in Letters
        /\ RunEnd(input, TokenStart, Letters) < Len(input)
        /\ input[RunEnd(input, TokenStart, Letters) + 1] \in Digits)
       => /\ Returned
          /\ NewToken.kind.tag \in WordTags
          /\ NewToken.literal =
               SubSeq(input, TokenStart + 1, RunEnd(input, TokenStart, Letters))
          /\ position' = RunEnd(input, TokenStart, Letters)
    /\ (Len(tokens) > 0 /\ LastToken.kind.tag \in WordTags
        /\ position < Len(input) /\ input[position + 1] \in Digits)
       => /\ Returned
          /\ NewToken.kind =
               [tag |-> "Int",
                text |-> SubSeq(input, position + 1, RunEnd(input, position, Digits))]
\* C18: a run of letters immediately followed by a digit is returned as the
\* identifier or keyword of the letters only, and the next call returns the
\* IntegerLiteral of the digit run that follows (x1: Identifier x, then 1).
C18_IdentifierStopsAtDigit == [][C18_DigitAfterLettersStep]_vars

RECURSIVE ConcatLiterals(_)
ConcatLiterals(toks) ==
    IF toks = <<>> THEN <<>>
    ELSE (IF toks[1].kind.tag = "EOF" THEN <<>> ELSE toks[1].literal)
         \o ConcatLiterals(Tail(toks))

\* C19: when the scan has reached EndOfInput, the literals of the tokens
\* returned before it, concatenated in order, are the input without its
\* whitespace characters.
C19_NoCharacterLostOrInvented ==
    (Len(tokens) > 0 /\ LastToken.kind.tag = "EOF")
    => ConcatLiterals(tokens) = SelectSeq(input, LAMBDA c : c \notin Whitespace)

C19_Witness ==
    /\ Len(tokens) >= 4
    /\ LastToken.kind.tag = "EOF"
    /\ tokens[3].kind.tag # "EOF"
    /\ \E i \in 1..Len(input) : input[i] \in Whitespace
    /\ \E i \in 1..Len(tokens) : tokens[i].kind.tag = "Int"

\* C20: the cursor stays within the input: position <= length of the input
\* and read_position <= length + 1, however many calls are made.
C20_CursorBounded ==
    /\ position <= Len(input)
    /\ read_position <= Len(input) + 1

C20_Witness ==
    /\ Len(tokens) >= Len(input) + 2
    /\ Len(input) >= 1
    /\ position = Len(input)
    /\ read_position = Len(input) + 1

====
